---- MODULE Spec2Model ----
(***************************************************************************)
(* Model of the Quadify display/state-synchronisation engine:              *)
(*   - the per-screen render state (latest_state / current_state) shared   *)
(*     by the Volumio event handler, the redraw loop, adjust_volume and    *)
(*     start_mode / stop_mode of VUScreen, DigitalVUScreen, OriginalScreen *)
(*   - the spectrum FIFO reader and DigitalVUScreen's peak-hold draw step  *)
(* Python threads interleave between statements; a `with state_lock:`      *)
(* block is split only where an unlocked access of another thread can      *)
(* observe or disturb it.  Time is counted in integer milliseconds.        *)
(***************************************************************************)
EXTENDS Integers, Sequences, FiniteSets, TLC

(* ------------------------------ bounds --------------------------------- *)
\* last value of the millisecond clock of the screen model
MaxTime == 2

\* most reader threads left running beside the one self.spectrum_thread names
MaxOrphans == 1

(* --------------------------- player states ----------------------------- *)
\* Python None is the empty sequence, a dict is a one-element sequence
None == << >>

Some(rec) == << rec >>

\* dict.get("status") or "" followed by .lower()
Lower(s) ==
    CASE s = "PLAY" -> "play"
      [] s = "Play" -> "play"
      [] s = "Pause" -> "pause"
      [] OTHER -> s

\* int(duration_val) > 0 inside try/except: a missing key (None) and a
\* non-numeric string raise and give False
duration_ok(rec) ==
    IF rec.durKind \in {"int", "numstr"} THEN rec.duration > 0 ELSE FALSE

\* the records the event source can deliver
PlayerStates ==
    { [status |-> "play",  hasSeek |-> TRUE, seek |-> 1000,
       durKind |-> "int", duration |-> 300, volume |-> 40, service |-> "mpd"],
      [status |-> "pause", hasSeek |-> TRUE, seek |-> 1000,
       durKind |-> "int", duration |-> 300, volume |-> 40, service |-> "mpd"],
      [status |-> "play",  hasSeek |-> TRUE, seek |-> 1000,
       durKind |-> "int", duration |-> 0, volume |-> 40, service |-> "mpd"],
      [status |-> "play",  hasSeek |-> TRUE, seek |-> 1000,
       durKind |-> "str", duration |-> 0, volume |-> 40, service |-> "mpd"],
      [status |-> "play",  hasSeek |-> TRUE, seek |-> 1000,
       durKind |-> "missing", duration |-> 0, volume |-> 40, service |-> "mpd"] }

\* the two records delivered where the interleaving of the threads, not the
\* content of the record, is what varies
PlayPause == { rec \in PlayerStates : duration_ok(rec) }

\* the player state delivered while the calls of the mode manager vary
Playing == { rec \in PlayPause : rec.status = "play" }

\* the dict {"volume": 100} adjust_volume stores when latest_state is None
Placeholder ==
    [status |-> "", hasSeek |-> FALSE, seek |-> 0,
     durKind |-> "missing", duration |-> 0, volume |-> 100, service |-> ""]

Screens == {"vu", "dvu", "orig"}

\* the threads that call into the display manager
DisplayThreads == {"t1", "t2"}

\* the mode tag each screen compares get_mode() with
ModeTag(s) ==
    CASE s = "vu" -> "vuscreen"
      [] s = "dvu" -> "digitalvuscreen"
      [] OTHER -> "original"

VARIABLES
    screen,            \* which screen class this instance is
    mode,              \* mode_manager.get_mode()
    suppressed,        \* mode_manager.is_state_change_suppressed()
    is_active,
    stop_event,
    update_event,
    latest_state,
    current_state,
    current_is_delivered, \* current_state is the dict the handler was handed
    drained,           \* seek and time of the last drain of the redraw loop
    state_lock,        \* "free" or the thread holding it
    last_update_time,
    now,               \* time.time() in ms
    loop_pc,           \* position of the redraw-loop thread
    triggered,         \* result of update_event.wait
    state_to_process,  \* OriginalScreen's loop local
    cycle,             \* which branch the running loop cycle took
    handler_pc,        \* position of the event-source callback thread
    handler_arg,
    last_pushed,       \* the record the handler stored last, while pending
    installs,          \* times the loop has installed last_pushed
    adjust_pc,         \* position of the adjust_volume caller
    adjust_delta,
    new_vol,
    emitted,           \* volume commands sent by the last adjust_volume
    caller_pc,         \* position of the start_mode / stop_mode caller
    cava_enabled,      \* mode_manager.config["cava_enabled"]
    running_spectrum,
    spectrum_pc,       \* position of the spectrum reader thread
    spectrum_bars,
    fifo_line,         \* the line the reader took from the FIFO last
    left_peak_cell,
    right_peak_cell,
    left_peak_time,
    right_peak_time,
    draw_hist,         \* left level and time of each peak-hold draw so far
    progress_bar,      \* the progress bar of DigitalVUScreen's last frame
    orphan_readers,    \* live reader threads self.spectrum_thread no longer names
    orphan_loops,      \* live redraw threads self.update_thread no longer names
    call_log,          \* the last start_mode / stop_mode call and what it did
    display_lock,      \* DisplayManager.lock: "free" or the thread holding it
    disp_op,           \* the display operation each thread is in or left last
    disp_pc,           \* position of each thread inside its display operation
    disp_result,       \* how each thread's last display operation ended
    last_write,        \* what put the last picture on the display
    draw_failed,       \* the part of draw_display whose exception is in flight
    previous_service,  \* OriginalScreen's self.previous_service
    fifo_state         \* what a reader finds at FIFO_PATH

envVars == << screen, mode, suppressed >>

flagVars == << is_active, stop_event, update_event >>

storeVars ==
    << latest_state, current_state, current_is_delivered, drained,
       state_lock, last_update_time >>

loopVars == << loop_pc, triggered, state_to_process, cycle, installs >>

handlerVars == << handler_pc, handler_arg, last_pushed >>

adjustVars == << adjust_pc, adjust_delta, new_vol, emitted >>

screenVars ==
    << envVars, flagVars, storeVars, loopVars, handlerVars, adjustVars,
       caller_pc >>

readerVars ==
    << running_spectrum, spectrum_pc, spectrum_bars, fifo_line,
       orphan_readers >>

peakVars ==
    << left_peak_cell, right_peak_cell, left_peak_time, right_peak_time,
       draw_hist, progress_bar >>

feedVars == << cava_enabled, readerVars, peakVars >>

lifeVars == << orphan_loops, call_log >>

dispVars == << display_lock, disp_op, disp_pc, disp_result >>

drawVars == << last_write, draw_failed, previous_service >>

auxVars == << lifeVars, dispVars, drawVars, fifo_state >>

vars == << screenVars, now, feedVars, auxVars >>

\* __init__: VUScreen creates no update thread, the other two start it
ScreenInit ==
    /\ screen \in Screens
    /\ mode = "menu"
    /\ suppressed = FALSE
    /\ is_active = FALSE
    /\ stop_event = FALSE
    /\ update_event = FALSE
    /\ latest_state = None
    /\ current_state = None
    /\ current_is_delivered = FALSE
    /\ drained = None
    /\ state_lock = "free"
    /\ last_update_time = 0
    /\ loop_pc = IF screen = "vu" THEN "dead" ELSE "start"
    /\ triggered = FALSE
    /\ state_to_process = None
    /\ cycle = "none"
    /\ handler_pc = "idle"
    /\ handler_arg = None
    /\ last_pushed = None
    /\ installs = 0
    /\ adjust_pc = "idle"
    /\ adjust_delta = 0
    /\ new_vol = 0
    /\ emitted = << >>
    /\ caller_pc = "idle"
    /\ orphan_loops = 0
    /\ call_log = << >>
    /\ last_write = "none"
    /\ draw_failed = "none"
    /\ previous_service = None

(* ------------------------- on_volumio_state_change --------------------- *)
\* a variant of handler_accepts that asks neither for an active screen nor
\* for the mode
handler_accepts_any_state(rec) ==
    screen = "orig" => /\ Lower(rec.service) # "webradio"
                       /\ ~suppressed

\* the guards before the lock: inactive, wrong mode, and (OriginalScreen
\* only) webradio service and suppression make the handler return
handler_accepts(rec) ==
    /\ is_active
    /\ mode = ModeTag(screen)
    /\ screen = "orig" => /\ Lower(rec.service) # "webradio"
                          /\ ~suppressed

on_volumio_state_change_check(states) ==
    /\ handler_pc = "idle"
    /\ \E rec \in states :
         IF handler_accepts(rec)
         THEN /\ handler_pc' = "store"
              /\ handler_arg' = Some(rec)
         ELSE /\ handler_pc' = "return"
              /\ UNCHANGED handler_arg
    /\ UNCHANGED << auxVars, envVars, flagVars, storeVars, loopVars,
                    adjustVars, last_pushed, now, caller_pc, feedVars >>

\* return -- the state is ignored
on_volumio_state_change_return ==
    /\ handler_pc = "return"
    /\ handler_pc' = "idle"
    /\ UNCHANGED << auxVars, envVars, flagVars, storeVars, loopVars,
                    adjustVars, handler_arg, last_pushed, now, caller_pc,
                    feedVars >>

\* with self.state_lock: self.latest_state = state
on_volumio_state_change_store ==
    /\ handler_pc = "store"
    /\ state_lock = "free"
    /\ latest_state' = handler_arg
    /\ last_pushed' = handler_arg
    /\ installs' = 0
    /\ handler_pc' = "set"
    /\ handler_arg' = None
    /\ UNCHANGED << drained, auxVars, envVars, flagVars, current_state,
                    current_is_delivered, state_lock, last_update_time,
                    loop_pc, triggered, state_to_process, cycle, adjustVars,
                    now, caller_pc, feedVars >>

\* self.update_event.set()
on_volumio_state_change_set ==
    /\ handler_pc = "set"
    /\ update_event' = TRUE
    /\ handler_pc' = "idle"
    /\ UNCHANGED << auxVars, envVars, is_active, stop_event, storeVars,
                    loopVars, adjustVars, handler_arg, last_pushed, now,
                    caller_pc, feedVars >>

(* --------------------------- update_display_loop ----------------------- *)
\* first statements of the thread: the loop's time base
update_display_loop_start ==
    /\ loop_pc = "start"
    /\ last_update_time' = now
    /\ loop_pc' = "top"
    /\ UNCHANGED << drained, auxVars, envVars, flagVars, latest_state,
                    current_state, current_is_delivered, state_lock,
                    triggered, state_to_process, cycle, installs, handlerVars,
                    adjustVars, now, caller_pc, feedVars >>

\* a variant of update_display_loop_top that does not look at the stop signal
update_display_loop_top_unconditional ==
    /\ loop_pc = "top"
    /\ loop_pc' = "wait"
    /\ UNCHANGED << auxVars, envVars, flagVars, storeVars, triggered,
                    state_to_process, cycle, installs, handlerVars,
                    adjustVars, now, caller_pc, feedVars >>

\* while not self.stop_event.is_set()
update_display_loop_top ==
    /\ loop_pc = "top"
    /\ loop_pc' = IF stop_event THEN "exiting" ELSE "wait"
    /\ UNCHANGED << auxVars, envVars, flagVars, storeVars, triggered,
                    state_to_process, cycle, installs, handlerVars,
                    adjustVars, now, caller_pc, feedVars >>

\* the thread function returns; is_alive() becomes False
update_display_loop_exit ==
    /\ loop_pc = "exiting"
    /\ loop_pc' = "dead"
    /\ UNCHANGED << auxVars, envVars, flagVars, storeVars, triggered,
                    state_to_process, cycle, installs, handlerVars,
                    adjustVars, now, caller_pc, feedVars >>

\* triggered = self.update_event.wait(timeout=0.1): True as soon as the
\* event is set, False when the timeout passes with the event clear
update_display_loop_wait ==
    /\ loop_pc = "wait"
    /\ triggered' = update_event
    /\ loop_pc' = "branch"
    /\ UNCHANGED << auxVars, envVars, flagVars, storeVars, state_to_process,
                    cycle, installs, handlerVars, adjustVars, now, caller_pc,
                    feedVars >>

\* a variant of extrapolated_seek with the elapsed time taken off seek
extrapolated_seek_backwards(rec, elapsed) ==
    (IF rec.hasSeek THEN rec.seek ELSE 0) - elapsed

\* seek_val + int(elapsed * 1000), seek_val = int(get("seek") or 0)
extrapolated_seek(rec, elapsed) ==
    (IF rec.hasSeek THEN rec.seek ELSE 0) + elapsed

\* a variant of extrapolates that asks for no condition on the record
extrapolates_always(s, rec) ==
    IF s = "dvu"
    THEN rec.hasSeek /\ rec.durKind # "missing"
    ELSE TRUE

\* the condition under which the elif branch moves seek forward
extrapolates(s, rec) ==
    IF s = "dvu"
    THEN rec.hasSeek /\ rec.durKind # "missing"
    ELSE Lower(rec.status) = "play" /\ duration_ok(rec)

\* the elif branch is entered
holds_state(s) ==
    IF s = "orig" THEN is_active /\ current_state # None
    ELSE current_state # None

\* the drain leaves current_state naming the dict the handler stored:
\* DigitalVUScreen assigns self.latest_state itself, VUScreen assigns
\* self.latest_state.copy(); the placeholder is adjust_volume's own dict
keeps_object(s, pending) == s = "dvu" /\ pending[1] # Placeholder

\* with self.state_lock: if triggered and self.latest_state: take the
\* pending state (VUScreen and OriginalScreen copy it, DigitalVUScreen
\* keeps the object); the lock stays held until the clear
update_display_loop_take ==
    /\ loop_pc = "branch"
    /\ state_lock = "free"
    /\ state_lock' = "loop"
    /\ triggered /\ latest_state # None
    /\ IF screen = "orig"
       THEN /\ state_to_process' = latest_state
            /\ UNCHANGED << current_state, current_is_delivered, installs >>
       ELSE /\ current_state' = latest_state
            /\ current_is_delivered' = keeps_object(screen, latest_state)
            /\ installs' = IF latest_state = last_pushed
                           THEN installs + 1 ELSE installs
            /\ UNCHANGED state_to_process
    /\ cycle' = "drain"
    /\ loop_pc' = "clear"
    /\ UNCHANGED << drained, auxVars, envVars, flagVars, latest_state,
                    last_update_time, triggered, handlerVars, adjustVars, now,
                    caller_pc, feedVars >>

\* int(get("seek") or 0) of the state the drain branch has just taken
drained_seek ==
    LET taken == IF screen = "orig" THEN state_to_process ELSE current_state
    IN  IF taken[1].hasSeek THEN taken[1].seek ELSE 0

\* a variant of update_display_loop_clear that leaves latest_state in place
update_display_loop_clear_keeps_pending ==
    /\ loop_pc = "clear"
    /\ update_event' = FALSE
    /\ last_update_time' = now
    /\ drained' = Some([seek |-> drained_seek, at |-> now])
    /\ state_lock' = "free"
    /\ loop_pc' = "render"
    /\ UNCHANGED << auxVars, envVars, is_active, stop_event, latest_state,
                    current_state, current_is_delivered, triggered,
                    state_to_process, cycle, installs, handlerVars,
                    adjustVars, now, caller_pc, feedVars >>

\* a variant of update_display_loop_clear that does not leave the with block
update_display_loop_clear_keeps_lock ==
    /\ loop_pc = "clear"
    /\ latest_state' = None
    /\ update_event' = FALSE
    /\ last_update_time' = now
    /\ drained' = Some([seek |-> drained_seek, at |-> now])
    /\ loop_pc' = "render"
    /\ last_pushed' = None
    /\ UNCHANGED << auxVars, envVars, is_active, stop_event, current_state,
                    current_is_delivered, state_lock, triggered,
                    state_to_process, cycle, installs, handler_pc,
                    handler_arg, adjustVars, now, caller_pc, feedVars >>

\* self.latest_state = None; self.update_event.clear();
\* last_update_time = time.time(); (release)
update_display_loop_clear ==
    /\ loop_pc = "clear"
    /\ latest_state' = None
    /\ update_event' = FALSE
    /\ last_update_time' = now
    /\ drained' = Some([seek |-> drained_seek, at |-> now])
    /\ state_lock' = "free"
    /\ loop_pc' = "render"
    /\ last_pushed' = None
    /\ UNCHANGED << auxVars, envVars, is_active, stop_event, current_state,
                    current_is_delivered, triggered, state_to_process, cycle,
                    installs, handler_pc, handler_arg, adjustVars, now,
                    caller_pc, feedVars >>

\* with self.state_lock: elif ...: elapsed = time.time() -
\* last_update_time; seek += elapsed; the lock stays held until the stamp
update_display_loop_extrapolate ==
    /\ loop_pc = "branch"
    /\ state_lock = "free"
    /\ state_lock' = "loop"
    /\ ~(triggered /\ latest_state # None)
    /\ holds_state(screen)
    /\ extrapolates(screen, current_state[1])
    /\ LET moved == [current_state[1] EXCEPT
                       !.seek = extrapolated_seek(current_state[1],
                                                  now - last_update_time),
                       !.hasSeek = TRUE]
       IN  IF screen = "orig"
           THEN /\ state_to_process' = Some(moved)
                /\ UNCHANGED << current_state, current_is_delivered >>
           ELSE /\ current_state' = Some(moved)
                /\ UNCHANGED << current_is_delivered, state_to_process >>
    /\ cycle' = "extrapolate"
    /\ loop_pc' = "stamp"
    /\ UNCHANGED << drained, auxVars, envVars, flagVars, latest_state,
                    last_update_time, triggered, installs, handlerVars,
                    adjustVars, now, caller_pc, feedVars >>

\* last_update_time = time.time() after the extrapolation; (release)
update_display_loop_stamp ==
    /\ loop_pc = "stamp"
    /\ last_update_time' = now
    /\ state_lock' = "free"
    /\ loop_pc' = "render"
    /\ UNCHANGED << drained, auxVars, envVars, flagVars, latest_state,
                    current_state, current_is_delivered, triggered,
                    state_to_process, cycle, installs, handlerVars,
                    adjustVars, now, caller_pc, feedVars >>

\* with self.state_lock: the elif branch without extrapolation, or
\* neither branch
update_display_loop_hold ==
    /\ loop_pc = "branch"
    /\ state_lock = "free"
    /\ ~(triggered /\ latest_state # None)
    /\ ~(holds_state(screen) /\ extrapolates(screen, current_state[1]))
    /\ IF holds_state(screen)
       THEN /\ cycle' = "hold"
            /\ last_update_time' =
                 IF screen = "dvu" THEN last_update_time ELSE now
            /\ state_to_process' =
                 IF screen = "orig" THEN current_state ELSE state_to_process
       ELSE /\ cycle' = "idle"
            /\ state_to_process' =
                 IF screen = "orig" THEN None ELSE state_to_process
            /\ UNCHANGED last_update_time
    /\ loop_pc' = "render"
    /\ UNCHANGED << drained, auxVars, envVars, flagVars, latest_state,
                    current_state, current_is_delivered, state_lock,
                    triggered, installs, handlerVars, adjustVars, now,
                    caller_pc, feedVars >>

\* threading.Thread(target=self._read_fifo).start(); self.spectrum_thread
\* then names the new thread, and a reader that is still alive is left
\* running beside it
spawn_reader ==
    /\ spectrum_pc = "dead" \/ orphan_readers < MaxOrphans
    /\ spectrum_pc' = "reading"
    /\ orphan_readers' = IF spectrum_pc = "dead" THEN orphan_readers
                         ELSE orphan_readers + 1

\* the head of DigitalVUScreen.draw_display: with cava enabled and the
\* running flag false it sets the flag and starts a reader; the draws of
\* the other screens start no thread
draw_display_spectrum ==
    IF screen = "dvu" /\ cava_enabled /\ ~running_spectrum
    THEN /\ running_spectrum' = TRUE
         /\ spawn_reader
    ELSE UNCHANGED << running_spectrum, spectrum_pc, orphan_readers >>

\* if self.is_active and get_mode() == tag and self.current_state
draws(s) ==
    /\ is_active
    /\ mode = ModeTag(s)
    /\ current_state # None

\* the draw condition after the lock is released; OriginalScreen installs
\* state_to_process as current_state here, and only when not suppressed.
\* The draws of VUScreen and OriginalScreen change no field of the screen;
\* DigitalVUScreen's draw is the next step of the loop.
\* VUScreen and DigitalVUScreen then sleep 50 ms before the next cycle.
update_display_loop_render ==
    /\ loop_pc = "render"
    /\ IF screen = "orig"
       THEN IF /\ is_active
               /\ mode = ModeTag(screen)
               /\ state_to_process # None
               /\ ~suppressed
            THEN /\ current_state' = state_to_process
                 /\ current_is_delivered' = FALSE
            ELSE UNCHANGED << current_state, current_is_delivered >>
       ELSE UNCHANGED << current_state, current_is_delivered >>
    /\ loop_pc' = IF screen = "dvu" /\ draws(screen) THEN "draw" ELSE "top"
    /\ triggered' = FALSE
    /\ state_to_process' = None
    /\ cycle' = "none"
    /\ UNCHANGED << drained, auxVars, envVars, flagVars, latest_state,
                    state_lock, last_update_time, installs, handlerVars,
                    adjustVars, now, caller_pc, feedVars >>

\* self.draw_display(self.current_state) of DigitalVUScreen's loop, as far
\* as the reader thread goes (the peak markers are draw_display_peaks)
update_display_loop_draw ==
    /\ loop_pc = "draw"
    /\ draw_display_spectrum
    /\ loop_pc' = "top"
    /\ UNCHANGED << auxVars, envVars, flagVars, storeVars, triggered,
                    state_to_process, cycle, installs, handlerVars,
                    adjustVars, now, caller_pc, cava_enabled, spectrum_bars,
                    fifo_line, peakVars >>

(* ------------- the redraw loop's draw, statement by statement ---------- *)
\* update_display_loop_render and update_display_loop_draw are the end of a
\* loop cycle as the render state sees it.  Below, the test before the draw
\* and the call of draw_display are steps of their own, the draw can fail,
\* and last_write records who put the last picture on the display.

\* the parts of a frame draw_display puts together, per screen
SubSteps(s) ==
    CASE s = "vu" -> {"background", "needles", "text"}
      [] s = "dvu" -> {"background", "progress", "bars", "text"}
      [] OTHER -> {"bars", "text", "icon"}

\* the part sits inside a try/except of draw_display: the background copy
\* of VUScreen and DigitalVUScreen, the text of DigitalVUScreen, the icon
\* lookup of OriginalScreen
guarded(s, part) ==
    \/ s \in {"vu", "dvu"} /\ part = "background"
    \/ s = "dvu" /\ part = "text"
    \/ s = "orig" /\ part = "icon"

\* the state itself makes draw_display raise: DigitalVUScreen's
\* int(data.get("duration", 1)) of a non-numeric string
data_raises(s, rec) == s = "dvu" /\ rec.durKind = "str"

\* the part whose exception leaves draw_display, "none" when the frame is
\* shown; failed is the part the environment makes fail ("none": no part)
draw_display_outcome(s, rec, failed) ==
    IF data_raises(s, rec) THEN "progress"
    ELSE IF failed # "none" /\ ~guarded(s, failed) THEN failed
    ELSE "none"

\* the lines after the lock is released: OriginalScreen installs
\* state_to_process as current_state when not suppressed; the test for the
\* draw is passed or not (VUScreen and DigitalVUScreen then sleep 50 ms)
update_display_loop_if_draw ==
    /\ loop_pc = "render"
    /\ IF screen = "orig"
       THEN IF /\ is_active
               /\ mode = ModeTag(screen)
               /\ state_to_process # None
               /\ ~suppressed
            THEN /\ current_state' = state_to_process
                 /\ current_is_delivered' = FALSE
                 /\ loop_pc' = "service"
            ELSE /\ UNCHANGED << current_state, current_is_delivered >>
                 /\ loop_pc' = "top"
       ELSE /\ UNCHANGED << current_state, current_is_delivered >>
            /\ loop_pc' = IF draws(screen) THEN "draw" ELSE "top"
    /\ triggered' = FALSE
    /\ state_to_process' = None
    /\ cycle' = "none"
    /\ UNCHANGED << drained, auxVars, envVars, flagVars, latest_state,
                    state_lock, last_update_time, installs, handlerVars,
                    adjustVars, now, caller_pc, feedVars >>

\* service = data.get("service", "").lower()
service_of(rec) == Lower(rec.service)

\* if service and service != self.previous_service  (the status of a state
\* with a service never leads to the other branch)
service_changed(rec) ==
    service_of(rec) # "" /\ Some(service_of(rec)) # previous_service

\* self.previous_service = service or self.previous_service or "default"
service_after(rec) ==
    IF service_of(rec) # "" THEN Some(service_of(rec))
    ELSE IF previous_service # None THEN previous_service
    ELSE Some("default")

\* the head of OriginalScreen.draw_display: a changed service leads to
\* self.display_manager.clear_screen() before the frame is put together
update_display_loop_service ==
    /\ loop_pc = "service"
    /\ IF service_changed(current_state[1])
       THEN /\ loop_pc' = "clear_screen"
            /\ UNCHANGED previous_service
       ELSE /\ loop_pc' = "draw"
            /\ previous_service' = service_after(current_state[1])
    /\ UNCHANGED << lifeVars, dispVars, last_write, draw_failed, fifo_state,
                    envVars, flagVars, storeVars, triggered, state_to_process,
                    cycle, installs, handlerVars, adjustVars, now, caller_pc,
                    feedVars >>

\* clear_screen(): with self.lock: -- entered when the lock is free
update_display_loop_clear_screen ==
    /\ loop_pc = "clear_screen"
    /\ display_lock = "free"
    /\ display_lock' = "loop"
    /\ loop_pc' = "cleared"
    /\ UNCHANGED << lifeVars, disp_op, disp_pc, disp_result, drawVars,
                    fifo_state, envVars, flagVars, storeVars, triggered,
                    state_to_process, cycle, installs, handlerVars,
                    adjustVars, now, caller_pc, feedVars >>

\* self.oled.display(img) of clear_screen and the end of its with block;
\* then self.previous_service = service
update_display_loop_cleared ==
    /\ loop_pc = "cleared"
    /\ last_write' = "clear"
    /\ display_lock' = "free"
    /\ previous_service' = service_after(current_state[1])
    /\ loop_pc' = "draw"
    /\ UNCHANGED << lifeVars, disp_op, disp_pc, disp_result, draw_failed,
                    fifo_state, envVars, flagVars, storeVars, triggered,
                    state_to_process, cycle, installs, handlerVars,
                    adjustVars, now, caller_pc, feedVars >>

\* self.draw_display(state): DigitalVUScreen restarts its reader first;
\* then the frame is put together, or an exception leaves draw_display
update_display_loop_draw_display ==
    /\ loop_pc = "draw"
    /\ draw_display_spectrum
    /\ \E failed \in SubSteps(screen) \cup {"none"} :
         LET out == draw_display_outcome(screen, current_state[1], failed)
         IN  /\ draw_failed' = out
             /\ loop_pc' = IF out = "none" THEN "blit" ELSE "raised"
    /\ UNCHANGED << lifeVars, dispVars, last_write, previous_service,
                    fifo_state, envVars, flagVars, storeVars, triggered,
                    state_to_process, cycle, installs, handlerVars,
                    adjustVars, now, caller_pc, cava_enabled, spectrum_bars,
                    fifo_line, peakVars >>

\* display_manager.display_pil(frame): with self.lock: -- entered when the
\* lock is free
update_display_loop_blit ==
    /\ loop_pc = "blit"
    /\ display_lock = "free"
    /\ display_lock' = "loop"
    /\ loop_pc' = "write"
    /\ UNCHANGED << lifeVars, disp_op, disp_pc, disp_result, drawVars,
                    fifo_state, envVars, flagVars, storeVars, triggered,
                    state_to_process, cycle, installs, handlerVars,
                    adjustVars, now, caller_pc, feedVars >>

\* self.oled.display(frame) and the end of the with block; draw_display
\* returns to the loop
update_display_loop_write ==
    /\ loop_pc = "write"
    /\ last_write' = "loop"
    /\ display_lock' = "free"
    /\ loop_pc' = "top"
    /\ UNCHANGED << lifeVars, disp_op, disp_pc, disp_result, draw_failed,
                    previous_service, fifo_state, envVars, flagVars,
                    storeVars, triggered, state_to_process, cycle, installs,
                    handlerVars, adjustVars, now, caller_pc, feedVars >>

\* the exception leaves update_display_loop, which has no try: the thread
\* ends
update_display_loop_raise ==
    /\ loop_pc = "raised"
    /\ loop_pc' = "dead"
    /\ draw_failed' = "none"
    /\ UNCHANGED << lifeVars, dispVars, fifo_state, last_write,
                    previous_service, envVars, flagVars, storeVars, triggered,
                    state_to_process, cycle, installs, handlerVars,
                    adjustVars, now, caller_pc, feedVars >>

(* ------------------------------ adjust_volume -------------------------- *)
AdjustDeltas == {-5, 0, 5}

\* max(0, min(int(curr_vol) + volume_change, 100))
clamp_volume(curr_vol, volume_change) ==
    LET v == curr_vol + volume_change
    IN  IF v > 100 THEN 100 ELSE IF v < 0 THEN 0 ELSE v

\* "+" for a positive change, "-" for a negative one, else the new volume
volume_command(volume_change, vol) ==
    IF volume_change > 0 THEN [kind |-> "+", value |-> 0]
    ELSE IF volume_change < 0 THEN [kind |-> "-", value |-> 0]
    ELSE [kind |-> "absolute", value |-> vol]

\* if self.latest_state is None: (read without the lock)
adjust_volume_check ==
    /\ adjust_pc = "idle"
    /\ emitted' = << >>
    /\ adjust_pc' = IF latest_state = None THEN "assume" ELSE "read"
    /\ UNCHANGED << auxVars, envVars, flagVars, storeVars, loopVars,
                    handlerVars, adjust_delta, new_vol, now, caller_pc,
                    feedVars >>

\* self.latest_state = {"volume": 100} (written without the lock)
adjust_volume_assume ==
    /\ adjust_pc = "assume"
    /\ latest_state' = Some(Placeholder)
    /\ adjust_pc' = "read"
    /\ UNCHANGED << drained, auxVars, envVars, flagVars, current_state,
                    current_is_delivered, state_lock, last_update_time,
                    loopVars, handlerVars, adjust_delta, new_vol, emitted,
                    now, caller_pc, feedVars >>

\* with self.state_lock: curr_vol = self.latest_state.get("volume", 100);
\* new_vol = clamp (kept only for a zero change, the one case that reads
\* it).  latest_state None here raises AttributeError, which leaves
\* adjust_volume without a command.  volume_change is the caller's
\* argument; this is its first use, so it is drawn here.
adjust_volume_read ==
    /\ adjust_pc = "read"
    /\ state_lock = "free"
    /\ IF latest_state = None
       THEN /\ adjust_pc' = "idle"
            /\ UNCHANGED << adjust_delta, new_vol >>
       ELSE \E d \in AdjustDeltas :
              /\ adjust_delta' = d
              /\ new_vol' = IF d = 0
                            THEN clamp_volume(latest_state[1].volume, d)
                            ELSE 0
              /\ adjust_pc' = "emit"
    /\ UNCHANGED << auxVars, envVars, flagVars, storeVars, loopVars,
                    handlerVars, emitted, now, caller_pc, feedVars >>

\* self.volumio_listener.socketIO.emit("volume", ...)
adjust_volume_emit ==
    /\ adjust_pc = "emit"
    /\ emitted' = Append(emitted, volume_command(adjust_delta, new_vol))
    /\ adjust_pc' = "idle"
    /\ adjust_delta' = 0
    /\ new_vol' = 0
    /\ UNCHANGED << auxVars, envVars, flagVars, storeVars, loopVars,
                    handlerVars, now, caller_pc, feedVars >>

(* ------------------------- start_mode / stop_mode ---------------------- *)
\* if get_mode() != tag: return; self.is_active = True
start_mode_activate ==
    /\ caller_pc = "idle"
    /\ mode = ModeTag(screen)
    /\ is_active' = TRUE
    /\ caller_pc' = "start_thread"
    /\ UNCHANGED << auxVars, envVars, stop_event, update_event, storeVars,
                    loopVars, handlerVars, adjustVars, now, feedVars >>

\* if not update_thread.is_alive(): stop_event.clear(); start a new thread
start_mode_thread ==
    /\ caller_pc = "start_thread"
    /\ IF loop_pc = "dead"
       THEN /\ stop_event' = FALSE
            /\ loop_pc' = "start"
       ELSE UNCHANGED << stop_event, loop_pc >>
    /\ caller_pc' = "idle"
    /\ UNCHANGED << auxVars, envVars, is_active, update_event, storeVars,
                    triggered, state_to_process, cycle, installs, handlerVars,
                    adjustVars, now, feedVars >>

\* if not self.is_active: return; self.is_active = False
stop_mode_deactivate ==
    /\ caller_pc = "idle"
    /\ is_active
    /\ is_active' = FALSE
    /\ caller_pc' = "stop_signal"
    /\ UNCHANGED << auxVars, envVars, stop_event, update_event, storeVars,
                    loopVars, handlerVars, adjustVars, now, feedVars >>

\* self.stop_event.set()
stop_mode_signal ==
    /\ caller_pc = "stop_signal"
    /\ stop_event' = TRUE
    /\ caller_pc' = "stop_wake"
    /\ UNCHANGED << auxVars, envVars, is_active, update_event, storeVars,
                    loopVars, handlerVars, adjustVars, now, feedVars >>

\* self.update_event.set(); update_thread.join(timeout=1), which returns
\* when the thread has ended or the timeout has passed
stop_mode_wake ==
    /\ caller_pc = "stop_wake"
    /\ update_event' = TRUE
    /\ caller_pc' = "idle"
    /\ UNCHANGED << auxVars, envVars, is_active, stop_event, storeVars,
                    loopVars, handlerVars, adjustVars, now, feedVars >>

(* ------------- start_mode / stop_mode, statement by statement ---------- *)
\* The calls above are start_mode and stop_mode as the render state sees
\* them.  Below, every statement that touches a thread, a flag, the player
\* or the display is a step of its own; call_log names the call and lists,
\* in order, what it did.

\* a variant of start_mode_guard that does not ask for the mode
start_mode_guard_any_mode ==
    /\ caller_pc = "idle"
    /\ screen = "vu" => display_lock = "free"
    /\ is_active' = TRUE
    /\ call_log' = IF screen = "vu"
                   THEN << "start_mode", "clear_screen" >>
                   ELSE << "start_mode" >>
    /\ last_write' = IF screen = "vu" THEN "clear" ELSE last_write
    /\ caller_pc' = IF screen = "orig" THEN "start_draw"
                    ELSE "start_spectrum"
    /\ UNCHANGED << envVars, stop_event, update_event, storeVars, loopVars,
                    handlerVars, adjustVars, now, feedVars, orphan_loops,
                    dispVars, draw_failed, previous_service, fifo_state >>

\* if self.mode_manager.get_mode() != tag: return
\* self.is_active = True  (VUScreen then clears the display, which
\* clear_screen does once the display lock is free)
start_mode_guard ==
    /\ caller_pc = "idle"
    /\ (mode = ModeTag(screen) /\ screen = "vu") => display_lock = "free"
    /\ IF mode # ModeTag(screen)
       THEN /\ call_log' = << "start_mode" >>
            /\ UNCHANGED << is_active, caller_pc, last_write >>
       ELSE /\ is_active' = TRUE
            /\ call_log' = IF screen = "vu"
                           THEN << "start_mode", "clear_screen" >>
                           ELSE << "start_mode" >>
            /\ last_write' = IF screen = "vu" THEN "clear" ELSE last_write
            /\ caller_pc' = IF screen = "orig" THEN "start_draw"
                            ELSE "start_spectrum"
    /\ UNCHANGED << envVars, stop_event, update_event, storeVars, loopVars,
                    handlerVars, adjustVars, now, feedVars, orphan_loops,
                    dispVars, draw_failed, previous_service, fifo_state >>

\* the condition under which start_mode starts a reader: VUScreen asks the
\* config and the running flag, DigitalVUScreen asks whether
\* self.spectrum_thread is alive
starts_reader(s) ==
    IF s = "vu" THEN cava_enabled /\ ~running_spectrum
    ELSE spectrum_pc = "dead"

\* self.running_spectrum = True; start the reader thread
start_mode_spectrum ==
    /\ caller_pc = "start_spectrum"
    /\ IF starts_reader(screen)
       THEN /\ running_spectrum' = TRUE
            /\ spawn_reader
            /\ call_log' = Append(call_log, "spawn_reader")
       ELSE UNCHANGED << running_spectrum, spectrum_pc, orphan_readers,
                         call_log >>
    /\ caller_pc' = "start_update"
    /\ UNCHANGED << envVars, flagVars, storeVars, loopVars, handlerVars,
                    adjustVars, now, cava_enabled, spectrum_bars, fifo_line,
                    peakVars, orphan_loops, dispVars, drawVars, fifo_state >>

\* a variant of update_thread_dead that does not ask the thread
update_thread_unchecked == TRUE

\* not self.update_thread or not self.update_thread.is_alive()
update_thread_dead == loop_pc = "dead"

\* if the update thread is dead: self.stop_event.clear(); start a new one,
\* which self.update_thread then names
start_mode_update_thread ==
    /\ caller_pc = "start_update"
    /\ IF update_thread_dead
       THEN /\ stop_event' = FALSE
            /\ loop_pc' = "start"
            /\ orphan_loops' = IF loop_pc = "dead" THEN orphan_loops
                               ELSE orphan_loops + 1
            /\ call_log' = Append(call_log, "spawn_loop")
       ELSE UNCHANGED << stop_event, loop_pc, orphan_loops, call_log >>
    /\ caller_pc' = IF screen = "orig" THEN "idle" ELSE "start_draw"
    /\ UNCHANGED << envVars, is_active, update_event, storeVars, triggered,
                    state_to_process, cycle, installs, handlerVars,
                    adjustVars, now, feedVars, dispVars, drawVars,
                    fifo_state >>

\* socketIO.emit("getState", {}); state = get_current_state();
\* if state: self.draw_display(state) -- whether the listener has a cached
\* state is up to the listener
start_mode_draw ==
    /\ caller_pc = "start_draw"
    /\ \E cached \in BOOLEAN :
         IF cached
         THEN /\ display_lock = "free"
              /\ draw_display_spectrum
              /\ call_log' = call_log \o << "getState", "draw" >>
              /\ last_write' = "start_mode"
              /\ previous_service' =
                   IF screen = "orig"
                   THEN service_after(CHOOSE rec \in Playing : TRUE)
                   ELSE previous_service
         ELSE /\ call_log' = Append(call_log, "getState")
              /\ UNCHANGED << running_spectrum, spectrum_pc,
                              orphan_readers, last_write,
                              previous_service >>
    /\ caller_pc' = IF screen = "orig" THEN "start_update" ELSE "idle"
    /\ UNCHANGED << envVars, flagVars, storeVars, loopVars, handlerVars,
                    adjustVars, now, cava_enabled, spectrum_bars, fifo_line,
                    peakVars, orphan_loops, dispVars, draw_failed,
                    fifo_state >>

\* a variant of stop_mode_guard that does not ask whether the screen is active
stop_mode_guard_any_state ==
    /\ caller_pc = "idle"
    /\ call_log' = << "stop_mode" >>
    /\ is_active' = FALSE
    /\ caller_pc' = IF screen = "orig" THEN "stop_event"
                    ELSE "stop_spectrum"
    /\ UNCHANGED << envVars, stop_event, update_event, storeVars, loopVars,
                    handlerVars, adjustVars, now, feedVars, orphan_loops,
                    dispVars, drawVars, fifo_state >>

\* if not self.is_active: return
\* self.is_active = False
stop_mode_guard ==
    /\ caller_pc = "idle"
    /\ call_log' = << "stop_mode" >>
    /\ IF ~is_active
       THEN UNCHANGED << is_active, caller_pc >>
       ELSE /\ is_active' = FALSE
            /\ caller_pc' = IF screen = "orig" THEN "stop_event"
                            ELSE "stop_spectrum"
    /\ UNCHANGED << envVars, stop_event, update_event, storeVars, loopVars,
                    handlerVars, adjustVars, now, feedVars, orphan_loops,
                    dispVars, drawVars, fifo_state >>

\* a variant of join_returns for a join without a timeout
join_returns_when_dead(thread_pc, timed_out) == thread_pc = "dead"

\* thread.join(timeout=1) returns when the thread has ended or the second
\* has passed
join_returns(thread_pc, timed_out) == thread_pc = "dead" \/ timed_out

\* self.running_spectrum = False; if the reader is alive:
\* self.spectrum_thread.join(timeout=1), which returns when the reader has
\* ended or the second has passed
stop_mode_spectrum ==
    /\ caller_pc = "stop_spectrum"
    /\ \E timed_out \in BOOLEAN : join_returns(spectrum_pc, timed_out)
    /\ running_spectrum' = FALSE
    /\ call_log' = IF spectrum_pc # "dead"
                   THEN Append(call_log, "join_spectrum") ELSE call_log
    /\ caller_pc' = "stop_event"
    /\ UNCHANGED << envVars, flagVars, storeVars, loopVars, handlerVars,
                    adjustVars, now, cava_enabled, spectrum_pc, spectrum_bars,
                    fifo_line, orphan_readers, peakVars, orphan_loops,
                    dispVars, drawVars, fifo_state >>

\* self.stop_event.set()
stop_mode_stop_event ==
    /\ caller_pc = "stop_event"
    /\ stop_event' = TRUE
    /\ call_log' = Append(call_log, "stop_event")
    /\ caller_pc' = "stop_update_event"
    /\ UNCHANGED << envVars, is_active, update_event, storeVars, loopVars,
                    handlerVars, adjustVars, now, feedVars, orphan_loops,
                    dispVars, drawVars, fifo_state >>

\* self.update_event.set(); if the update thread is alive:
\* self.update_thread.join(timeout=1), which returns when the thread has
\* ended or the second has passed
stop_mode_update_event ==
    /\ caller_pc = "stop_update_event"
    /\ \E timed_out \in BOOLEAN : join_returns(loop_pc, timed_out)
    /\ update_event' = TRUE
    /\ call_log' = IF loop_pc # "dead"
                   THEN Append(call_log, "join_update") ELSE call_log
    /\ caller_pc' = "stop_clear"
    /\ UNCHANGED << envVars, is_active, stop_event, storeVars, loopVars,
                    handlerVars, adjustVars, now, feedVars, orphan_loops,
                    dispVars, drawVars, fifo_state >>

\* self.display_manager.clear_screen(): with self.lock: the display is
\* cleared once the lock is free
stop_mode_clear_screen ==
    /\ caller_pc = "stop_clear"
    /\ display_lock = "free"
    /\ call_log' = Append(call_log, "clear_screen")
    /\ last_write' = "clear"
    /\ caller_pc' = "idle"
    /\ UNCHANGED << envVars, flagVars, storeVars, loopVars, handlerVars,
                    adjustVars, now, feedVars, orphan_loops, dispVars,
                    draw_failed, previous_service, fifo_state >>

\* display_playback_info of VUScreen and DigitalVUScreen:
\* state = get_current_state(); if state: self.draw_display(state), from
\* whichever thread calls it
display_playback_info ==
    /\ screen \in {"vu", "dvu"}
    /\ display_lock = "free"
    /\ draw_display_spectrum
    /\ last_write' = "display_playback_info"
    /\ UNCHANGED << lifeVars, dispVars, draw_failed, previous_service,
                    fifo_state, screenVars, now, cava_enabled, spectrum_bars,
                    fifo_line, peakVars >>

(* ------------------------------ environment ---------------------------- *)
\* the mode manager switches the global mode
set_mode ==
    /\ mode' = IF mode = "menu" THEN ModeTag(screen) ELSE "menu"
    /\ UNCHANGED << auxVars, screen, suppressed, flagVars, storeVars,
                    loopVars, handlerVars, adjustVars, now, caller_pc,
                    feedVars >>

\* the mode manager starts or ends suppression of state changes (the flag
\* is read by OriginalScreen only)
set_suppressed ==
    /\ screen = "orig"
    /\ suppressed' = ~suppressed
    /\ UNCHANGED << auxVars, screen, mode, flagVars, storeVars, loopVars,
                    handlerVars, adjustVars, now, caller_pc, feedVars >>

\* the same for whichever screen is shown (VUScreen and DigitalVUScreen
\* hold the same mode manager and never ask it for the flag)
set_suppressed_any_screen ==
    /\ suppressed' = ~suppressed
    /\ UNCHANGED << auxVars, screen, mode, flagVars, storeVars, loopVars,
                    handlerVars, adjustVars, now, caller_pc, feedVars >>

\* time.time() advances; the clock is read by the redraw loop only, so
\* it is advanced only where the loop is about to read it
Tick ==
    /\ now < MaxTime
    /\ loop_pc \in {"start", "branch", "clear", "stamp"}
    /\ now' = now + 1
    /\ UNCHANGED << auxVars, screenVars, feedVars >>

(* ------------------------- spectrum FIFO reader ------------------------ *)
\* self.spectrum_bars = [0] * 36
NumBars == 36

\* bars[:18] and bars[18:]
HalfBars == 18

\* most fields of a line of freely chosen fields
MaxTokens == 2

Digits == {"0", "2", "3", "5"}

Whitespace == {" ", "\n"}

RECURSIVE strip_left(_)
strip_left(s) ==
    IF s # << >> /\ Head(s) \in Whitespace THEN strip_left(Tail(s)) ELSE s

RECURSIVE strip_right(_)
strip_right(s) ==
    IF s # << >> /\ s[Len(s)] \in Whitespace
    THEN strip_right(SubSeq(s, 1, Len(s) - 1)) ELSE s

\* str.strip()
strip(s) == strip_right(strip_left(s))

\* str.split(";"): the k-th token lies between the (k-1)-th and the k-th
\* separator; the empty string gives one empty token
split(s) ==
    LET is_sep(i) == s[i] = ";"
        seps == SelectSeq([i \in 1..Len(s) |-> i], is_sep)
        n == Len(seps)
        lo(k) == IF k = 1 THEN 1 ELSE seps[k - 1] + 1
        hi(k) == IF k = n + 1 THEN Len(s) ELSE seps[k] - 1
    IN  [k \in 1..(n + 1) |-> SubSeq(s, lo(k), hi(k))]

\* str.isdigit(): non-empty and every character a digit
isdigit(tok) == tok # << >> /\ \A i \in 1..Len(tok) : tok[i] \in Digits

digit_value(c) ==
    CASE c = "0" -> 0 [] c = "2" -> 2 [] c = "3" -> 3 [] OTHER -> 5

\* int(x) of a digit string
RECURSIVE int(_)
int(tok) ==
    IF tok = << >> THEN 0
    ELSE 10 * int(SubSeq(tok, 1, Len(tok) - 1)) + digit_value(tok[Len(tok)])

\* [int(x) for x in tokens if x.isdigit()]
numeric_values(tokens) ==
    LET kept == SelectSeq(tokens, isdigit)
    IN  [i \in 1..Len(kept) |-> int(kept[i])]

\* bars = [int(x) for x in line.strip().split(";") if x.isdigit()]
parse_bars(line) == numeric_values(split(strip(line)))

RECURSIVE join(_)
join(tokens) ==
    IF Len(tokens) = 1 THEN tokens[1]
    ELSE tokens[1] \o << ";" >> \o join(Tail(tokens))

\* the text of one line of the FIFO: its fields and the newline
line_of(tokens) == join(tokens) \o << "\n" >>

Quiet == << "5", "0" >>

Loud == << "2", "0", "0" >>

\* a line of 36 values as CAVA writes it: l in the left half, r in the right
full_line(l, r) ==
    line_of([i \in 1..NumBars |-> IF i <= HalfBars THEN l ELSE r])

FullLines == { full_line(Quiet, Loud), full_line(Loud, Quiet) }

\* a 36-field line with one field that is no number
DamagedLine ==
    line_of([i \in 1..NumBars |-> IF i = 2 THEN << "x" >> ELSE Quiet])

\* the fields of the short lines: empty, a level, a value over 255, no number
FeedTokens == { << >>, << "5" >>, << "3", "0", "0" >>, << "x" >> }

FeedLines ==
    { line_of(tokens) :
        tokens \in UNION { [1..n -> FeedTokens] : n \in 1..MaxTokens } }
      \cup FullLines \cup { DamagedLine }

\* one iteration of the reader's loop over the lines of the FIFO:
\* if bars: self.spectrum_bars = bars  (DigitalVUScreen skips an empty
\* line before parsing, which parses to no bars as well)
read_fifo(lines) ==
    /\ spectrum_pc = "reading"
    /\ running_spectrum
    /\ \E line \in lines :
         LET bars == parse_bars(line)
         IN  /\ fifo_line' = line
             /\ spectrum_bars' = IF bars # << >> THEN bars
                                 ELSE spectrum_bars
    /\ UNCHANGED << auxVars, screenVars, now, cava_enabled, running_spectrum,
                    spectrum_pc, orphan_readers, peakVars >>

\* while self.running_spectrum / if not self.running_spectrum: break --
\* the reader finds the flag false and its thread ends
read_fifo_exit ==
    /\ spectrum_pc = "reading"
    /\ ~running_spectrum
    /\ spectrum_pc' = "dead"
    /\ UNCHANGED << auxVars, screenVars, now, cava_enabled, running_spectrum,
                    spectrum_bars, fifo_line, orphan_readers, peakVars >>

\* the same exit taken by a reader self.spectrum_thread no longer names
read_fifo_exit_orphan ==
    /\ orphan_readers > 0
    /\ ~running_spectrum
    /\ orphan_readers' = orphan_readers - 1
    /\ UNCHANGED << auxVars, screenVars, now, cava_enabled, running_spectrum,
                    spectrum_pc, spectrum_bars, fifo_line, peakVars >>

(* ------------------ the reader thread, call by call -------------------- *)
\* read_fifo above is the reader as the shared vector sees it.  Below, the
\* calls in which the reader can wait are steps of their own; "reading" is
\* the reader at `while self.running_spectrum`.

\* FIFO_PATH does not exist; exists with no writer; a writer has it open
\* and has written nothing more; a line is waiting
FeedStates == {"absent", "no_writer", "silent", "line"}

\* CAVA, or whoever owns the FIFO, creates or removes it, opens or closes
\* it, writes a line
feed_changes ==
    /\ \E f \in FeedStates \ {fifo_state} : fifo_state' = f
    /\ UNCHANGED << lifeVars, dispVars, drawVars, screenVars, now, feedVars >>

\* while self.running_spectrum: if not os.path.exists(fifo_path): sleep and
\* try again, else go on to open it
read_fifo_find ==
    /\ spectrum_pc = "reading"
    /\ running_spectrum
    /\ fifo_state # "absent"
    /\ spectrum_pc' = "open"
    /\ UNCHANGED << auxVars, screenVars, now, cava_enabled, running_spectrum,
                    spectrum_bars, fifo_line, orphan_readers, peakVars >>

\* open(fifo_path, "r"): returns once a writer has the FIFO open; a path
\* that is gone raises, which is logged before the next try
read_fifo_open ==
    /\ spectrum_pc = "open"
    /\ fifo_state # "no_writer"
    /\ spectrum_pc' = IF fifo_state = "absent" THEN "reading" ELSE "lines"
    /\ UNCHANGED << auxVars, screenVars, now, cava_enabled, running_spectrum,
                    spectrum_bars, fifo_line, orphan_readers, peakVars >>

\* the lines CAVA writes, each with the bars the reader makes of it
FullReadings == { << line, parse_bars(line) >> : line \in FullLines }

\* the reader takes the waiting line into the shared vector
read_fifo_take ==
    /\ \E reading \in FullReadings :
         /\ fifo_line' = reading[1]
         /\ spectrum_bars' = IF reading[2] # << >> THEN reading[2]
                             ELSE spectrum_bars
    /\ fifo_state' = "silent"
    /\ UNCHANGED spectrum_pc

\* VUScreen: `for line in fifo` waits for a line or for the writer to
\* close, and looks at the flag once it has a line.
\* DigitalVUScreen: `while self.running_spectrum: fifo.readline()` on the
\* non-blocking FIFO looks at the flag before every read and sleeps when
\* there is nothing to read.
read_fifo_line ==
    /\ spectrum_pc = "lines"
    /\ IF screen = "vu"
       THEN /\ fifo_state # "silent"
            /\ IF fifo_state = "line" /\ running_spectrum
               THEN read_fifo_take
               ELSE /\ spectrum_pc' = "reading"
                    /\ UNCHANGED << fifo_state, fifo_line, spectrum_bars >>
       ELSE IF ~running_spectrum
            THEN /\ spectrum_pc' = "reading"
                 /\ UNCHANGED << fifo_state, fifo_line, spectrum_bars >>
            ELSE /\ fifo_state = "line"
                 /\ read_fifo_take
    /\ UNCHANGED << lifeVars, dispVars, drawVars, screenVars, now,
                    cava_enabled, running_spectrum, orphan_readers,
                    peakVars >>

(* ------------------- DigitalVUScreen.draw_display: peak hold ----------- *)
\* self.peak_hold_ms
peak_hold_ms == 1500

\* num_cells of the bar ladder
num_cells == 64

\* full-scale spectrum level
MaxLevel == 255

\* number of draws recorded in draw_hist
MaxDraws == 3

\* number of clock steps of the peak-hold model
MaxTicks == 4

\* one clock step: half the hold time, so that a draw can fall exactly on
\* the timeout
TickMs == peak_hold_ms \div 2

RECURSIVE sum(_)
sum(s) == IF s = << >> THEN 0 ELSE Head(s) + sum(Tail(s))

\* a variant of visible_bars that takes the shared vector whatever the config
visible_bars_shared == spectrum_bars

\* bars = [0] * 36 when cava is disabled, else self.spectrum_bars
visible_bars ==
    IF cava_enabled THEN spectrum_bars ELSE [i \in 1..NumBars |-> 0]

\* left = sum(bars[:18]) // 18 if len(bars) == 36, else 0
left_level(bars) ==
    IF Len(bars) = NumBars
    THEN sum(SubSeq(bars, 1, HalfBars)) \div HalfBars ELSE 0

\* right = sum(bars[18:]) // 18 if len(bars) == 36, else 0
right_level(bars) ==
    IF Len(bars) = NumBars
    THEN sum(SubSeq(bars, HalfBars + 1, NumBars)) \div HalfBars ELSE 0

\* int((level / 255.0) * num_cells)
level_to_cells(level) == (level * num_cells) \div MaxLevel

\* a variant of hold_expired that runs out at the timeout itself
hold_expired_at_timeout(t, peak_time) == t - peak_time >= peak_hold_ms

\* the hold has run out: now - peak_time > peak_hold_ms / 1000
hold_expired(t, peak_time) == t - peak_time > peak_hold_ms

\* the peak cell and peak time after a draw that shows `cells` at time t
peak_after(peak_cell, peak_time, cells, t) ==
    IF cells > peak_cell \/ hold_expired(t, peak_time)
    THEN << cells, t >>
    ELSE IF cells < peak_cell /\ hold_expired(t, peak_time)
         THEN << cells, peak_time >>
         ELSE << peak_cell, peak_time >>

\* draw_display of DigitalVUScreen: restart the reader if cava is enabled
\* and it is not running, take the levels, move the peak markers
draw_display_peaks ==
    /\ screen = "dvu"
    /\ Len(draw_hist) < MaxDraws
    /\ draw_display_spectrum
    /\ LET left == left_level(visible_bars)
           right == right_level(visible_bars)
           lp == peak_after(left_peak_cell, left_peak_time,
                            level_to_cells(left), now)
           rp == peak_after(right_peak_cell, right_peak_time,
                            level_to_cells(right), now)
       IN  /\ left_peak_cell' = lp[1]
           /\ left_peak_time' = lp[2]
           /\ right_peak_cell' = rp[1]
           /\ right_peak_time' = rp[2]
           /\ draw_hist' = Append(draw_hist, [left |-> left, right |-> right,
                                              t |-> now])
    /\ UNCHANGED << auxVars, screenVars, now, cava_enabled, spectrum_bars,
                    fifo_line, progress_bar >>

\* draw_display of VUScreen: take the levels and draw the two needles; no
\* thread is started and no peak is kept
draw_display_needles ==
    /\ screen = "vu"
    /\ Len(draw_hist) < MaxDraws
    /\ LET left == left_level(visible_bars)
           right == right_level(visible_bars)
       IN  draw_hist' = Append(draw_hist, [left |-> left, right |-> right,
                                           t |-> now])
    /\ UNCHANGED << auxVars, screenVars, now, cava_enabled, readerVars,
                    left_peak_cell, right_peak_cell, left_peak_time,
                    right_peak_time, progress_bar >>

(* ------------------ DigitalVUScreen's progress bar --------------------- *)
\* ssd1322(self.serial, width=256, height=64, ...): oled.size[0]
screen_width == 256

\* progress_margin = 2
progress_margin == 2

\* progress_width = screen_width - (progress_margin * 2)
progress_width == screen_width - (progress_margin * 2)

\* progress_x = progress_margin
progress_x == progress_margin

\* most quarter seconds of seek, either side of zero
MaxSeekSteps == 8

\* longest duration in seconds
MaxDuration == 5

\* seek in milliseconds, duration in seconds, as the player reports them
SeekValues == { 250 * k : k \in (0 - MaxSeekSteps)..MaxSeekSteps }

DurationValues == (0 - 1)..MaxDuration

\* a fraction num / den with den > 0, the value of a Python float
Fraction(num, den) == [num |-> num, den |-> den]

less(p, q) == p.num * q.den < q.num * p.den

max(p, q) == IF less(p, q) THEN q ELSE p

min(p, q) == IF less(q, p) THEN q ELSE p

\* int(x) of a float: the fraction cut off towards zero
int_of(p) ==
    IF p.num >= 0 THEN p.num \div p.den ELSE 0 - ((0 - p.num) \div p.den)

\* duration_s = max(1, int(data.get("duration", 1)))
duration_s(duration) == IF duration > 1 THEN duration ELSE 1

\* seek_s = max(0, seek_ms / 1000.0)
seek_s(seek_ms) == max(Fraction(0, 1), Fraction(seek_ms, 1000))

\* a variant of progress that does not cut the fraction off at 1.0
progress_unbounded(seek_ms, duration) ==
    LET s == seek_s(seek_ms)
    IN  max(Fraction(0, 1), Fraction(s.num, s.den * duration_s(duration)))

\* progress = max(0.0, min(seek_s / duration_s, 1.0))
progress(seek_ms, duration) ==
    LET s == seek_s(seek_ms)
        q == Fraction(s.num, s.den * duration_s(duration))
    IN  max(Fraction(0, 1), min(q, Fraction(1, 1)))

\* indicator_x = progress_x + int(progress_width * progress)
indicator_x(p) ==
    progress_x + int_of(Fraction(progress_width * p.num, p.den))

\* the progress bar of draw_display for a state with this seek and duration
draw_display_progress ==
    /\ screen = "dvu"
    /\ \E seek_ms \in SeekValues, duration \in DurationValues :
         LET p == progress(seek_ms, duration)
         IN  progress_bar' = Some([seek |-> seek_ms, duration |-> duration,
                                   progress |-> p,
                                   indicator_x |-> indicator_x(p)])
    /\ UNCHANGED << auxVars, screenVars, now, cava_enabled, readerVars,
                    left_peak_cell, right_peak_cell, left_peak_time,
                    right_peak_time, draw_hist >>

\* time.time() advances between draws
PeakTick ==
    /\ now < MaxTicks * TickMs
    /\ now' = now + TickMs
    /\ UNCHANGED << auxVars, screenVars, feedVars >>

FeedIdle ==
    /\ cava_enabled = FALSE
    /\ running_spectrum = FALSE
    /\ spectrum_pc = "dead"
    /\ spectrum_bars = [i \in 1..NumBars |-> 0]
    /\ fifo_line = << >>
    /\ left_peak_cell = 0
    /\ right_peak_cell = 0
    /\ left_peak_time = 0
    /\ right_peak_time = 0
    /\ draw_hist = << >>
    /\ progress_bar = None
    /\ orphan_readers = 0
    /\ fifo_state = "line"

(* ---------------------------- DisplayManager --------------------------- *)
\* the operations whose body is `with self.lock:` (display_error_message
\* of OriginalScreen takes display_manager.lock itself)
LockedOps ==
    { "clear_screen", "display_text", "draw_custom", "display_image",
      "display_pil", "display_error_message" }

\* the operations that call self.oled.display() with no lock
UnlockedOps ==
    { "slide_clock_to_menu", "show_logo", "show_ready_gif_until_event" }

\* the operations that show one frame after another
FrameLoops == UnlockedOps

DisplayOps == LockedOps \cup UnlockedOps

\* a thread enters a display operation.  display_pil(None) returns at once.
display_call(t) ==
    /\ disp_pc[t] = "idle"
    /\ \E op \in DisplayOps, image_given \in BOOLEAN :
         /\ ~image_given => op = "display_pil"
         /\ disp_op' = [disp_op EXCEPT ![t] = op]
         /\ IF image_given
            THEN /\ disp_pc' = [disp_pc EXCEPT
                                  ![t] = IF op \in LockedOps THEN "acquire"
                                         ELSE "compose"]
                 /\ disp_result' = [disp_result EXCEPT ![t] = "none"]
            ELSE /\ disp_result' = [disp_result EXCEPT ![t] = "ok"]
                 /\ UNCHANGED disp_pc
    /\ UNCHANGED << screenVars, now, feedVars, lifeVars, drawVars, fifo_state,
                    display_lock >>

\* a variant of display_acquire that does not wait for the lock
display_acquire_unguarded(t) ==
    /\ disp_pc[t] = "acquire"
    /\ display_lock' = t
    /\ disp_pc' = [disp_pc EXCEPT ![t] = "compose"]
    /\ UNCHANGED << screenVars, now, feedVars, lifeVars, drawVars, fifo_state,
                    disp_op, disp_result >>

\* with self.lock: -- entered when the lock is free
display_acquire(t) ==
    /\ disp_pc[t] = "acquire"
    /\ display_lock = "free"
    /\ display_lock' = t
    /\ disp_pc' = [disp_pc EXCEPT ![t] = "compose"]
    /\ UNCHANGED << screenVars, now, feedVars, lifeVars, drawVars, fifo_state,
                    disp_op, disp_result >>

\* the frame is built and converted (Image.new, paste, resize, convert,
\* draw_function, render_to_image), which succeeds or raises; on success
\* the thread enters self.oled.display(frame)
display_compose(t) ==
    /\ disp_pc[t] = "compose"
    /\ \E converted \in BOOLEAN :
         disp_pc' = [disp_pc EXCEPT
                       ![t] = IF converted THEN "write" ELSE "raise"]
    /\ UNCHANGED << screenVars, now, feedVars, lifeVars, drawVars, fifo_state,
                    display_lock, disp_op, disp_result >>

\* self.oled.display(frame) returns or raises
display_write(t) ==
    /\ disp_pc[t] = "write"
    /\ \E written \in BOOLEAN :
         disp_pc' = [disp_pc EXCEPT
                       ![t] = IF written THEN "after" ELSE "raise"]
    /\ UNCHANGED << screenVars, now, feedVars, lifeVars, drawVars, fifo_state,
                    display_lock, disp_op, disp_result >>

\* the loops of slide_clock_to_menu, show_logo and
\* show_ready_gif_until_event go on to their next frame
display_next_frame(t) ==
    /\ disp_pc[t] = "after"
    /\ disp_op[t] \in FrameLoops
    /\ disp_pc' = [disp_pc EXCEPT ![t] = "compose"]
    /\ UNCHANGED << screenVars, now, feedVars, lifeVars, drawVars, fifo_state,
                    display_lock, disp_op, disp_result >>

\* how the operation ends after an exception: display_image catches and
\* logs it, the others let it out
result_of_raise(op) == IF op = "display_image" THEN "logged" ELSE "raised"

\* a variant of display_exit that gives the lock back on a normal return only
display_exit_keeps_lock_on_raise(t) ==
    /\ disp_pc[t] \in {"after", "raise"}
    /\ display_lock' = IF display_lock = t /\ disp_pc[t] = "after"
                       THEN "free" ELSE display_lock
    /\ disp_result' = [disp_result EXCEPT
                         ![t] = IF disp_pc[t] = "raise"
                                THEN result_of_raise(disp_op[t]) ELSE "ok"]
    /\ disp_pc' = [disp_pc EXCEPT ![t] = "idle"]
    /\ UNCHANGED << screenVars, now, feedVars, lifeVars, drawVars, fifo_state,
                    disp_op >>

\* the operation returns or lets its exception out; leaving the with block
\* releases the lock either way (display_error_message sleeps 2 s first)
display_exit(t) ==
    /\ disp_pc[t] \in {"after", "raise"}
    /\ display_lock' = IF display_lock = t THEN "free" ELSE display_lock
    /\ disp_result' = [disp_result EXCEPT
                         ![t] = IF disp_pc[t] = "raise"
                                THEN result_of_raise(disp_op[t]) ELSE "ok"]
    /\ disp_pc' = [disp_pc EXCEPT ![t] = "idle"]
    /\ UNCHANGED << screenVars, now, feedVars, lifeVars, drawVars, fifo_state,
                    disp_op >>

\* DisplayManager.__init__: self.lock = threading.Lock(); no thread is
\* inside a display operation
DisplayIdle ==
    /\ display_lock = "free"
    /\ disp_op = [t \in DisplayThreads |-> "none"]
    /\ disp_pc = [t \in DisplayThreads |-> "idle"]
    /\ disp_result = [t \in DisplayThreads |-> "none"]

Init == ScreenInit /\ now = 0 /\ FeedIdle /\ DisplayIdle

\* every thread of one screen; the clock stands still
Next ==
    \/ on_volumio_state_change_check(PlayPause)
    \/ on_volumio_state_change_return
    \/ on_volumio_state_change_store
    \/ on_volumio_state_change_set
    \/ update_display_loop_start
    \/ update_display_loop_top
    \/ update_display_loop_exit
    \/ update_display_loop_wait
    \/ update_display_loop_take
    \/ update_display_loop_clear
    \/ update_display_loop_extrapolate
    \/ update_display_loop_stamp
    \/ update_display_loop_hold
    \/ update_display_loop_render
    \/ update_display_loop_draw
    \/ adjust_volume_check
    \/ adjust_volume_assume
    \/ adjust_volume_read
    \/ adjust_volume_emit
    \/ start_mode_activate
    \/ start_mode_thread
    \/ stop_mode_deactivate
    \/ stop_mode_signal
    \/ stop_mode_wake
    \/ set_mode
    \/ set_suppressed

Spec == Init /\ [][Next]_vars

\* the screen as start_mode leaves it: active, in its own mode, the redraw
\* thread started
ActiveScreen ==
    /\ mode = ModeTag(screen)
    /\ suppressed = FALSE
    /\ is_active = TRUE
    /\ stop_event = FALSE
    /\ update_event = FALSE
    /\ latest_state = None
    /\ current_state = None
    /\ current_is_delivered = FALSE
    /\ drained = None
    /\ state_lock = "free"
    /\ last_update_time = 0
    /\ now = 0
    /\ loop_pc = "start"
    /\ triggered = FALSE
    /\ state_to_process = None
    /\ cycle = "none"
    /\ handler_pc = "idle"
    /\ handler_arg = None
    /\ last_pushed = None
    /\ installs = 0
    /\ adjust_pc = "idle"
    /\ adjust_delta = 0
    /\ new_vol = 0
    /\ emitted = << >>
    /\ caller_pc = "idle"
    /\ orphan_loops = 0
    /\ call_log = << >>
    /\ last_write = "none"
    /\ draw_failed = "none"
    /\ previous_service = None

SeekInit == screen \in Screens /\ ActiveScreen /\ FeedIdle /\ DisplayIdle

\* the event handler and the redraw loop of an active screen under a
\* running clock, with every kind of player state
SeekNext ==
    \/ on_volumio_state_change_check(PlayerStates)
    \/ on_volumio_state_change_return
    \/ on_volumio_state_change_store
    \/ on_volumio_state_change_set
    \/ update_display_loop_start
    \/ update_display_loop_top
    \/ update_display_loop_wait
    \/ update_display_loop_take
    \/ update_display_loop_clear
    \/ update_display_loop_extrapolate
    \/ update_display_loop_stamp
    \/ update_display_loop_hold
    \/ update_display_loop_render
    \/ update_display_loop_draw
    \/ set_mode
    \/ set_suppressed
    \/ Tick

SpecSeek == SeekInit /\ [][SeekNext]_vars

\* the spectrum reader of a started screen, fed every kind of line
FeedInit ==
    /\ screen \in {"vu", "dvu"}
    /\ ActiveScreen
    /\ cava_enabled = TRUE
    /\ running_spectrum = TRUE
    /\ spectrum_pc = "reading"
    /\ spectrum_bars = [i \in 1..NumBars |-> 0]
    /\ fifo_line = << >>
    /\ left_peak_cell = 0
    /\ right_peak_cell = 0
    /\ left_peak_time = 0
    /\ right_peak_time = 0
    /\ draw_hist = << >>
    /\ progress_bar = None
    /\ orphan_readers = 0
    /\ fifo_state = "line"
    /\ DisplayIdle

FeedNext == read_fifo(FeedLines)

SpecFeed == FeedInit /\ [][FeedNext]_vars

\* DigitalVUScreen drawing while a reader feeds it full lines; the reader
\* may have been told to stop
PeakInit ==
    /\ screen = "dvu"
    /\ ActiveScreen
    /\ cava_enabled \in BOOLEAN
    /\ running_spectrum \in BOOLEAN
    /\ spectrum_pc = IF running_spectrum THEN "reading" ELSE "dead"
    /\ spectrum_bars = [i \in 1..NumBars |-> 0]
    /\ fifo_line = << >>
    /\ left_peak_cell = 0
    /\ right_peak_cell = 0
    /\ left_peak_time = 0
    /\ right_peak_time = 0
    /\ draw_hist = << >>
    /\ progress_bar = None
    /\ orphan_readers = 0
    /\ fifo_state = "line"
    /\ DisplayIdle

PeakNext ==
    \/ read_fifo(FullLines)
    \/ draw_display_peaks
    \/ PeakTick

SpecPeak == PeakInit /\ [][PeakNext]_vars

\* VUScreen or DigitalVUScreen drawing while lines arrive; the config is
\* read at every draw, and a reader may run while it says disabled
LevelsInit ==
    /\ screen \in {"vu", "dvu"}
    /\ ActiveScreen
    /\ cava_enabled \in BOOLEAN
    /\ running_spectrum \in BOOLEAN
    /\ spectrum_pc = IF running_spectrum THEN "reading" ELSE "dead"
    /\ spectrum_bars = [i \in 1..NumBars |-> 0]
    /\ fifo_line = << >>
    /\ left_peak_cell = 0
    /\ right_peak_cell = 0
    /\ left_peak_time = 0
    /\ right_peak_time = 0
    /\ draw_hist = << >>
    /\ progress_bar = None
    /\ orphan_readers = 0
    /\ fifo_state = "line"
    /\ DisplayIdle

LevelsNext ==
    \/ read_fifo(FullLines)
    \/ draw_display_peaks
    \/ draw_display_needles
    \/ PeakTick

SpecLevels == LevelsInit /\ [][LevelsNext]_vars

\* a constructed screen, with the spectrum enabled in the config or not
LifeInit ==
    /\ ScreenInit
    /\ now = 0
    /\ cava_enabled \in BOOLEAN
    /\ running_spectrum = FALSE
    /\ spectrum_pc = "dead"
    /\ spectrum_bars = [i \in 1..NumBars |-> 0]
    /\ fifo_line = << >>
    /\ left_peak_cell = 0
    /\ right_peak_cell = 0
    /\ left_peak_time = 0
    /\ right_peak_time = 0
    /\ draw_hist = << >>
    /\ progress_bar = None
    /\ orphan_readers = 0
    /\ fifo_state = "line"
    /\ DisplayIdle

\* the mode manager's calls of start_mode and stop_mode against the event
\* handler, the redraw loop and the reader thread
LifeNext ==
    \/ on_volumio_state_change_check(Playing)
    \/ on_volumio_state_change_return
    \/ on_volumio_state_change_store
    \/ on_volumio_state_change_set
    \/ update_display_loop_start
    \/ update_display_loop_top
    \/ update_display_loop_exit
    \/ update_display_loop_wait
    \/ update_display_loop_take
    \/ update_display_loop_clear
    \/ update_display_loop_extrapolate
    \/ update_display_loop_stamp
    \/ update_display_loop_hold
    \/ update_display_loop_if_draw
    \/ update_display_loop_service
    \/ update_display_loop_clear_screen
    \/ update_display_loop_cleared
    \/ update_display_loop_draw_display
    \/ update_display_loop_blit
    \/ update_display_loop_write
    \/ update_display_loop_raise
    \/ start_mode_guard
    \/ start_mode_spectrum
    \/ start_mode_update_thread
    \/ start_mode_draw
    \/ stop_mode_guard
    \/ stop_mode_spectrum
    \/ stop_mode_stop_event
    \/ stop_mode_update_event
    \/ stop_mode_clear_screen
    \/ display_playback_info
    \/ read_fifo_exit
    \/ read_fifo_exit_orphan
    \/ set_mode

SpecLife == LifeInit /\ [][LifeNext]_vars

\* the screen as start_mode leaves it, with its reader where it has one,
\* and the FIFO in any condition
StopInit ==
    /\ screen \in Screens
    /\ ActiveScreen
    /\ cava_enabled \in BOOLEAN
    /\ running_spectrum = (screen = "dvu" \/ (screen = "vu" /\ cava_enabled))
    /\ spectrum_pc = IF running_spectrum THEN "reading" ELSE "dead"
    /\ spectrum_bars = [i \in 1..NumBars |-> 0]
    /\ fifo_line = << >>
    /\ left_peak_cell = 0
    /\ right_peak_cell = 0
    /\ left_peak_time = 0
    /\ right_peak_time = 0
    /\ draw_hist = << >>
    /\ progress_bar = None
    /\ orphan_readers = 0
    /\ fifo_state \in FeedStates
    /\ DisplayIdle

\* the steps of the redraw-loop thread
update_display_loop ==
    \/ update_display_loop_start
    \/ update_display_loop_top
    \/ update_display_loop_exit
    \/ update_display_loop_wait
    \/ update_display_loop_take
    \/ update_display_loop_clear
    \/ update_display_loop_extrapolate
    \/ update_display_loop_stamp
    \/ update_display_loop_hold
    \/ update_display_loop_if_draw
    \/ update_display_loop_service
    \/ update_display_loop_clear_screen
    \/ update_display_loop_cleared
    \/ update_display_loop_draw_display
    \/ update_display_loop_blit
    \/ update_display_loop_write
    \/ update_display_loop_raise

\* the steps of a call of stop_mode
stop_mode ==
    \/ stop_mode_guard
    \/ stop_mode_spectrum
    \/ stop_mode_stop_event
    \/ stop_mode_update_event
    \/ stop_mode_clear_screen

\* the steps of the reader thread
read_fifo_thread ==
    \/ read_fifo_find
    \/ read_fifo_open
    \/ read_fifo_line
    \/ read_fifo_exit

\* a running screen is stopped: the event handler, the redraw loop and the
\* reader against one call of stop_mode
StopNext ==
    \/ on_volumio_state_change_check(Playing)
    \/ on_volumio_state_change_return
    \/ on_volumio_state_change_store
    \/ on_volumio_state_change_set
    \/ update_display_loop
    \/ stop_mode
    \/ read_fifo_exit

\* the redraw-loop thread keeps running
SpecLoopFair == StopInit /\ [][StopNext]_vars /\ WF_vars(update_display_loop)

\* the reader and the feed against one call of stop_mode
ReaderNext ==
    \/ read_fifo_thread
    \/ feed_changes
    \/ stop_mode

\* the reader thread takes a step whenever it can again and again; nothing
\* is asked of the feed
SpecReaderFair == StopInit /\ [][ReaderNext]_vars /\ SF_vars(read_fifo_thread)

\* the caller of stop_mode keeps running and a device write that has begun
\* comes to its end; nothing is asked of the redraw loop or of the reader
SpecCallerFair ==
    StopInit /\ [][StopNext]_vars
    /\ WF_vars(stop_mode) /\ WF_vars(update_display_loop_write)
    /\ WF_vars(update_display_loop_cleared)

\* an active screen receiving every kind of player state and drawing it,
\* while the mode manager changes the mode and the suppression flag
GateNext ==
    \/ on_volumio_state_change_check(PlayerStates)
    \/ on_volumio_state_change_return
    \/ on_volumio_state_change_store
    \/ on_volumio_state_change_set
    \/ update_display_loop_start
    \/ update_display_loop_top
    \/ update_display_loop_wait
    \/ update_display_loop_take
    \/ update_display_loop_clear
    \/ update_display_loop_extrapolate
    \/ update_display_loop_stamp
    \/ update_display_loop_hold
    \/ update_display_loop_if_draw
    \/ update_display_loop_service
    \/ update_display_loop_clear_screen
    \/ update_display_loop_cleared
    \/ update_display_loop_draw_display
    \/ update_display_loop_blit
    \/ update_display_loop_write
    \/ update_display_loop_raise
    \/ set_mode
    \/ set_suppressed_any_screen

SpecGate == SeekInit /\ [][GateNext]_vars

\* the threads of the application calling into one DisplayManager
DisplayNext ==
    \E t \in DisplayThreads :
        \/ display_call(t)
        \/ display_acquire(t)
        \/ display_compose(t)
        \/ display_write(t)
        \/ display_next_frame(t)
        \/ display_exit(t)

SpecDisplay == Init /\ [][DisplayNext]_vars

\* DigitalVUScreen drawing the progress bar of every seek and duration
ProgressInit == screen = "dvu" /\ ActiveScreen /\ FeedIdle /\ DisplayIdle

ProgressNext == draw_display_progress

SpecProgress == ProgressInit /\ [][ProgressNext]_vars

\* the threads that take the state lock or the display lock, side by side:
\* the event handler, the redraw loop of an active screen, one call of
\* stop_mode, and a thread inside the display manager
LocksNext ==
    \/ on_volumio_state_change_check(Playing)
    \/ on_volumio_state_change_return
    \/ on_volumio_state_change_store
    \/ on_volumio_state_change_set
    \/ update_display_loop
    \/ stop_mode
    \/ display_call("t1")
    \/ display_acquire("t1")
    \/ display_compose("t1")
    \/ display_write("t1")
    \/ display_next_frame("t1")
    \/ display_exit("t1")

SpecLocks == SeekInit /\ [][LocksNext]_vars

(* ================================ claims =============================== *)
\* x holds a record the event source delivered (not the placeholder)
is_push(x) == x # None /\ x[1] \in PlayerStates

\* int(get("seek") or 0)
seek_of(x) == IF x[1].hasSeek THEN x[1].seek ELSE 0

\* the step installs a drained state as current_state
installs_drained ==
    IF screen = "orig"
    THEN loop_pc = "render" /\ cycle = "drain"
    ELSE loop_pc = "branch" /\ loop_pc' = "clear"

\* C1: in VUScreen and DigitalVUScreen, when the loop finishes consuming a
\* pending push, current_state is the record the handler stored last and
\* latest_state is empty; and that record is installed at most once.
C1_DrainInstallsLastPush ==
    /\ [][ ( /\ screen \in {"vu", "dvu"}
             /\ loop_pc = "clear" /\ loop_pc' = "render"
             /\ is_push(current_state) )
           => /\ current_state' = last_pushed
              /\ latest_state' = None ]_vars
    /\ [](screen \in {"vu", "dvu"} => installs <= 1)

C1_Witness ==
    /\ screen \in {"vu", "dvu"}
    /\ loop_pc = "render" /\ cycle = "drain"
    /\ is_push(current_state)
    /\ latest_state = None
    /\ installs = 1

\* C2: in OriginalScreen, a pushed state the loop took out of latest_state
\* is current_state at the end of that cycle, whatever the mode and the
\* suppression flag are.
C2_OrigDrainBecomesCurrent ==
    [][ ( /\ screen = "orig" /\ is_active
          /\ loop_pc = "render" /\ loop_pc' # "render"
          /\ cycle = "drain" )
        => current_state' = state_to_process ]_vars

\* C3: when the loop evaluates its branch under the state lock with a
\* pushed state pending, it consumes that state in this cycle (and so
\* does not extrapolate).
C3_PendingPushWins ==
    [][ ( /\ loop_pc = "branch" /\ loop_pc' # "branch"
          /\ is_push(latest_state) )
        => cycle' = "drain" ]_vars

\* the record counts as playing with a known positive duration
plays_with_duration(rec) ==
    /\ Lower(rec.status) = "play"
    /\ rec.durKind \in {"int", "numstr"}
    /\ rec.duration > 0

\* C4: in VUScreen and OriginalScreen, across loop steps that install no
\* drained push, seek of a playing current_state with positive duration
\* never decreases.
C4_SeekNonDecreasing ==
    [][ ( /\ screen \in {"vu", "orig"}
          /\ current_state # None /\ current_state' # None
          /\ ~installs_drained
          /\ plays_with_duration(current_state[1]) )
        => seek_of(current_state') >= seek_of(current_state) ]_vars

C4_Witness ==
    /\ screen \in {"vu", "orig"}
    /\ current_state # None
    /\ plays_with_duration(current_state[1])
    /\ seek_of(current_state) > 1000
    /\ last_pushed = None

\* C5: in VUScreen and OriginalScreen, across loop steps that install no
\* drained push, seek of current_state is unchanged while its duration is
\* 0, missing or non-numeric, or its status is not play.
C5_SeekFrozen ==
    [][ ( /\ screen \in {"vu", "orig"}
          /\ current_state # None /\ current_state' # None
          /\ ~installs_drained
          /\ ~plays_with_duration(current_state[1]) )
        => seek_of(current_state') = seek_of(current_state) ]_vars

C5_Witness ==
    /\ screen \in {"vu", "orig"}
    /\ loop_pc = "render" /\ cycle = "hold"
    /\ is_push(current_state)
    /\ ~plays_with_duration(current_state[1])
    /\ now > 0

\* C6: in DigitalVUScreen, across loop steps that install no drained push,
\* seek of current_state is unchanged while its duration is 0, missing or
\* non-numeric, or its status is not play.
C6_DvuSeekFrozen ==
    [][ ( /\ screen = "dvu"
          /\ current_state # None /\ current_state' # None
          /\ ~installs_drained
          /\ ~plays_with_duration(current_state[1]) )
        => seek_of(current_state') = seek_of(current_state) ]_vars

\* the fields of the line as the reader sees them
fields(line) == split(strip(line))

all_numeric(tokens) == \A i \in 1..Len(tokens) : isdigit(tokens[i])

\* some field has text that is no number
has_non_numeric(tokens) ==
    \E i \in 1..Len(tokens) : tokens[i] # << >> /\ ~isdigit(tokens[i])

\* C7: a line whose fields are all numeric replaces the shared vector by
\* exactly those values; a line with a non-numeric field leaves the vector
\* as it was.
C7_LineReplacesOrKeeps ==
    [][ LET tokens == fields(fifo_line')
        IN  /\ all_numeric(tokens)
               => spectrum_bars' = [i \in 1..Len(tokens) |-> int(tokens[i])]
            /\ has_non_numeric(tokens)
               => spectrum_bars' = spectrum_bars ]_vars

\* C8: the shared spectrum vector always has 36 elements, each in 0..255.
C8_VectorShape ==
    /\ Len(spectrum_bars) = NumBars
    /\ \A i \in 1..Len(spectrum_bars) : spectrum_bars[i] \in 0..MaxLevel

\* levels of the draws so far
drawn_levels == [i \in 1..Len(draw_hist) |-> draw_hist[i].left]

C10_AdjustLeavesStates ==
    [][ adjust_pc' # adjust_pc
        => /\ latest_state' = latest_state
           /\ current_state' = current_state ]_vars

\* x holds a player state, not the placeholder of adjust_volume
is_player_state(x) == x # None /\ x[1] # Placeholder

\* the volume of the state received last: the pending one, or else the one
\* the loop installed
received_volume ==
    IF is_player_state(latest_state) THEN latest_state[1].volume
    ELSE current_state[1].volume

\* C11: adjust_volume emits exactly one command, "+" for a positive change,
\* "-" for a negative one, and for a zero change the clamped volume of the
\* state received last, whether that state is still pending or the loop has
\* already installed it (VUScreen and DigitalVUScreen).
C11_AdjustCommand ==
    /\ [][ ( /\ screen \in {"vu", "dvu"}
             /\ adjust_pc = "read" /\ adjust_pc' = "emit"
             /\ adjust_delta' = 0
             /\ is_player_state(latest_state)
                  \/ is_player_state(current_state) )
           => new_vol' = clamp_volume(received_volume, 0) ]_vars
    /\ [][ (adjust_pc # "idle" /\ adjust_pc' = "idle")
           => /\ Len(emitted') = 1
              /\ emitted'[1].kind =
                   IF adjust_delta > 0 THEN "+"
                   ELSE IF adjust_delta < 0 THEN "-" ELSE "absolute" ]_vars

\* the threads inside self.oled.display() on behalf of one of the operations
writers(ops) ==
    { t \in DisplayThreads : disp_pc[t] = "write" /\ disp_op[t] \in ops }

\* C12: at most one thread at a time is inside a device write made by
\* display_pil or clear_screen.
C12_BlitsDoNotOverlap ==
    Cardinality(writers({"display_pil", "clear_screen"})) <= 1

C12_Witness ==
    /\ disp_pc["t1"] = "write" /\ disp_op["t1"] = "display_pil"
    /\ disp_pc["t2"] = "acquire" /\ disp_op["t2"] = "clear_screen"

\* C13: every thread inside a device write holds the display lock, so at
\* most one device write is in flight.
C13_EveryWriteHoldsLock ==
    /\ \A t \in DisplayThreads : disp_pc[t] = "write" => display_lock = t
    /\ Cardinality(writers(DisplayOps)) <= 1

\* the operations C14 is about
BlitOps ==
    { "clear_screen", "display_text", "draw_custom", "display_image",
      "display_pil" }

\* C14: when frame conversion or the device write fails inside clear_screen,
\* display_text, draw_custom, display_image or display_pil, the lock is free
\* as the operation exits, and no thread outside an operation holds the lock
\* (so a later operation of any thread can take it).
C14_LockFreeAfterFailure ==
    /\ [][ \A t \in DisplayThreads :
             ( /\ disp_pc[t] = "raise" /\ disp_pc'[t] = "idle"
               /\ disp_op[t] \in BlitOps )
             => display_lock' = "free" ]_vars
    /\ [](\A t \in DisplayThreads :
             disp_pc[t] \in {"idle", "acquire"} => display_lock # t)

C14_Witness ==
    /\ disp_pc["t1"] = "idle" /\ disp_op["t1"] = "display_pil"
    /\ disp_result["t1"] = "raised"
    /\ display_lock = "t2" /\ disp_pc["t2"] = "write"
    /\ disp_op["t2"] \in BlitOps

\* the step is the first of a call of the named operation
enters(op) ==
    /\ caller_pc = "idle"
    /\ call_log' # call_log
    /\ Head(call_log') = op

\* C15: stop_mode on an inactive screen changes no field, sets no event,
\* joins no thread and clears no display.
C15_StopInactiveIsNoOp ==
    [][ (enters("stop_mode") /\ ~is_active)
        => /\ call_log' = << "stop_mode" >>
           /\ UNCHANGED << screenVars, feedVars, orphan_loops >> ]_vars

C15_Witness ==
    /\ caller_pc = "idle"
    /\ call_log = << "stop_mode" >>
    /\ ~is_active
    /\ stop_event

\* C16: start_mode while the mode is not the screen's own changes no field,
\* starts no thread, emits nothing to the player and draws nothing.
C16_StartWrongModeIsNoOp ==
    [][ (enters("start_mode") /\ mode # ModeTag(screen))
        => /\ call_log' = << "start_mode" >>
           /\ UNCHANGED << screenVars, feedVars, orphan_loops >> ]_vars

C16_Witness ==
    /\ caller_pc = "idle"
    /\ call_log = << "start_mode" >>
    /\ ~is_active
    /\ mode # ModeTag(screen)

\* live redraw-loop threads of the screen
alive_loops == (IF loop_pc # "dead" THEN 1 ELSE 0) + orphan_loops

\* C17: at most one redraw-loop thread of the screen is alive.
C17_OneRedrawLoop == alive_loops <= 1

C17_Witness ==
    /\ caller_pc = "idle"
    /\ \E i \in 1..Len(call_log) : call_log[i] = "spawn_loop"
    /\ screen \in {"dvu", "orig"}
    /\ alive_loops = 1

\* C18: once start_mode has returned with the screen active, a redraw-loop
\* thread is alive and its stop signal is clear, until the next stop_mode.
C18_ActiveScreenHasLoop ==
    ( /\ caller_pc = "idle"
      /\ call_log # << >> /\ Head(call_log) = "start_mode"
      /\ is_active )
    => /\ loop_pc \notin {"dead", "exiting"}
       /\ ~stop_event

\* live reader threads of the screen
alive_readers == (IF spectrum_pc # "dead" THEN 1 ELSE 0) + orphan_readers

\* C19: at most one spectrum reader thread of the screen is alive.
C19_OneReader == alive_readers <= 1

\* C20: after stop_mode has returned on an active DigitalVUScreen, the
\* running flag of its reader is false until the next start_mode.
C20_ReaderStaysStopped ==
    ( /\ screen = "dvu"
      /\ caller_pc = "idle"
      /\ Len(call_log) > 1 /\ Head(call_log) = "stop_mode" )
    => ~running_spectrum

\* C21: after stop_mode has returned on an active screen, the picture on
\* the display is not a frame of the screen's redraw loop: the loop writes
\* no frame after stop_mode's clear, until the next start_mode.
C21_LoopSilentAfterStop ==
    ( /\ caller_pc = "idle"
      /\ Len(call_log) > 1 /\ Head(call_log) = "stop_mode" )
    => last_write # "loop"

\* the step puts a frame of the screen on the display
writes_frame ==
    \/ loop_pc = "draw" /\ loop_pc' = "top"
    \/ /\ last_write' # last_write
       /\ last_write' \in {"loop", "start_mode", "display_playback_info"}

\* C22: a frame of the screen is written only while the screen is active
\* and the mode is the screen's own, whether the redraw loop, start_mode
\* or display_playback_info writes it.
C22_WritesOnlyWhileActive ==
    [][ writes_frame => is_active /\ mode = ModeTag(screen) ]_vars

\* the step is one of the event handler
handler_steps == handler_pc' # handler_pc

\* C23: a state received while the screen is inactive or the mode is not
\* the screen's own is ignored: the handler returns without changing
\* latest_state and without setting the update signal.
C23_IgnoredWhileInactive ==
    /\ [][ ( /\ handler_pc = "idle" /\ handler_steps
             /\ ~is_active \/ mode # ModeTag(screen) )
           => handler_pc' = "return" ]_vars
    /\ [][ ( handler_steps /\ "return" \in {handler_pc, handler_pc'} )
           => UNCHANGED << latest_state, update_event >> ]_vars

C23_Witness ==
    /\ handler_pc = "return"
    /\ ~is_active
    /\ mode = ModeTag(screen)
    /\ update_event

\* C24: once the stop signal is set, the redraw loop does not begin another
\* cycle, and its thread ends, with no further push needed.
C24_LoopLeavesAfterStop ==
    /\ [][ (stop_event /\ loop_pc = "top") => loop_pc' # "wait" ]_vars
    /\ (stop_event ~> loop_pc = "dead")

C24_Witness ==
    /\ stop_event
    /\ loop_pc = "dead"
    /\ caller_pc = "stop_update_event"
    /\ last_write = "loop"
    /\ latest_state = None

\* C25: once the running flag is false, the reader thread ends, with
\* nothing more arriving on the feed.
C25_ReaderLeavesAfterStop == ~running_spectrum ~> spectrum_pc = "dead"

\* C26: a call of stop_mode on an active screen clears the display and
\* returns, whatever the redraw thread and the reader thread do.
C26_StopModeReturns ==
    (caller_pc # "idle")
    ~> ( /\ caller_pc = "idle"
         /\ call_log # << >>
         /\ call_log[Len(call_log)] = "clear_screen" )

C26_Witness ==
    /\ caller_pc = "idle"
    /\ Len(call_log) > 1 /\ call_log[Len(call_log)] = "clear_screen"
    /\ loop_pc \notin {"dead", "exiting"}
    /\ spectrum_pc # "dead"

\* C27: with the spectrum disabled in the config, every frame is drawn with
\* left and right level 0 whatever the shared vector holds, and a draw
\* starts no reader thread.
C27_DisabledDrawsZero ==
    /\ [](~cava_enabled
          => \A i \in 1..Len(draw_hist) :
               draw_hist[i].left = 0 /\ draw_hist[i].right = 0)
    /\ [][ (~cava_enabled /\ Len(draw_hist') > Len(draw_hist))
           => UNCHANGED << running_spectrum, spectrum_pc,
                           orphan_readers >> ]_vars

C27_Witness ==
    /\ ~cava_enabled
    /\ Len(draw_hist) > 0
    /\ left_level(spectrum_bars) > 0
    /\ right_level(spectrum_bars) > 0

\* C28: when one part of a frame fails (background, needles or bars,
\* progress and time labels, text, icon), no exception leaves draw_display:
\* the frame is shown with the other parts.
C28_DrawSurvivesFailure == draw_failed = "none"

\* C29: a redraw-loop thread ends only after its stop signal has been set;
\* no pushed state and no failing draw ends it.
C29_LoopEndsOnlyOnStop ==
    [][ (loop_pc # "dead" /\ loop_pc' = "dead") => stop_event ]_vars

\* C30: on every screen, while the mode manager reports suppression, a
\* received state is ignored and the redraw loop's test before the draw
\* fails.
C30_SuppressionGates ==
    /\ [][ (handler_pc = "idle" /\ handler_steps /\ suppressed)
           => handler_pc' = "return" ]_vars
    /\ [][ (loop_pc = "render" /\ loop_pc' = "draw") => ~suppressed ]_vars

\* C31: a record the player event source delivered is never modified by a
\* screen: while current_state is the very dict the handler was handed,
\* no step other than the installation of another state changes what that
\* dict holds, so its seek stays the delivered seek
C31_DeliveredRecordKept ==
    [][(current_is_delivered /\ current_is_delivered' /\ ~installs_drained)
          => current_state' = current_state]_vars

\* the step is taken by a thread inside its `with self.state_lock:` block:
\* the handler's store, adjust_volume's read, or a step of the redraw loop
\* that takes the lock or holds it
in_state_lock ==
    \/ handler_pc = "store" /\ handler_pc' = "set"
    \/ adjust_pc = "read" /\ adjust_pc' # "read"
    \/ loop_pc' # loop_pc /\ (state_lock = "loop" \/ state_lock' = "loop")

\* C32: latest_state and current_state are written only by a thread that
\* holds the screen's state lock
C32_StateAccessUnderLock ==
    [][(latest_state' # latest_state \/ current_state' # current_state)
          => in_state_lock]_vars

\* C33: at the end of every redraw cycle, seek of a playing current_state
\* with a positive duration is the seek of the last drained push plus the
\* time from that drain to the loop's last time stamp
C33_SeekTracksClock ==
    (/\ loop_pc = "top"
     /\ drained # None
     /\ current_state # None
     /\ plays_with_duration(current_state[1]))
       => seek_of(current_state)
            = drained[1].seek + (last_update_time - drained[1].at)

\* C34: no thread builds a frame (creates the image, draws text, converts
\* it) while it holds the display lock
C34_LockOnlyAroundWrite ==
    \A t \in DisplayThreads :
        ~(display_lock = t /\ disp_pc[t] = "compose")

\* C35: for every integer seek and duration, the progress fraction of
\* DigitalVUScreen's draw lies in [0, 1] and the indicator lies on the
\* track, from the margin to the margin plus the track width
C35_ProgressOnTrack ==
    progress_bar # None =>
        LET bar == progress_bar[1]
        IN  /\ 0 <= bar.progress.num
            /\ bar.progress.num <= bar.progress.den
            /\ progress_margin <= bar.indicator_x
            /\ bar.indicator_x <= progress_margin + progress_width

\* a seek past the end of the track puts the indicator on the track's end
C35_Witness ==
    /\ progress_bar # None
    /\ progress_bar[1].duration > 0
    /\ progress_bar[1].seek > 1000 * progress_bar[1].duration
    /\ progress_bar[1].indicator_x = progress_margin + progress_width

\* C36: no thread holds the state lock and the display lock together, and
\* whoever holds a lock is at a statement inside its with block, never at
\* the entry of another with block: no thread waits for a lock while it
\* holds one, so no threads wait for each other
C36_LockOrder ==
    /\ ~(state_lock = "loop" /\ display_lock = "loop")
    /\ state_lock = "loop" => loop_pc \in {"clear", "stamp"}
    /\ display_lock = "loop" => loop_pc \in {"write", "cleared"}
    /\ \A t \in DisplayThreads :
          display_lock = t => disp_pc[t] \in {"compose", "write", "after",
                                              "raise"}

\* both locks are held, by different threads, while the handler waits for
\* the state lock
C36_Witness ==
    /\ state_lock = "loop"
    /\ display_lock = "t1"
    /\ handler_pc = "store"

\* the record without its seek
without_seek(rec) == [rec EXCEPT !.seek = 0, !.hasSeek = TRUE]

\* C37: current_state is empty or, up to its seek, a state the player
\* event source delivered; the placeholder of adjust_volume never becomes
\* current_state
C37_CurrentIsDelivered ==
    current_state = None
      \/ \E rec \in PlayerStates :
            without_seek(current_state[1]) = without_seek(rec)

\* C38: a pushed state waiting in latest_state leaves it in two ways only:
\* the handler stores a later push over it, or the redraw loop drains it
C38_PendingPushKept ==
    [][(is_push(latest_state) /\ latest_state' # latest_state)
          => \/ handler_pc = "store" /\ handler_pc' = "set"
             \/ loop_pc = "clear" /\ loop_pc' = "render"]_vars

\* C39: no state of an earlier active period is carried into the next one:
\* at the step of start_mode that makes the screen active, neither
\* latest_state nor current_state holds a state the handler stored, the
\* update signal is clear, and no handler call that passed its checks
\* earlier is still on its way to the store
C39_NothingCarriedOver ==
    [][(~is_active /\ is_active')
          => /\ ~is_push(latest_state')
             /\ current_state' \in {None, Some(Placeholder)}
             /\ ~update_event'
             /\ handler_pc' \notin {"store", "set"}]_vars

\* C40: when the redraw loop ends a cycle with latest_state empty and no
\* stop requested, the update signal is clear
C40_SignalClearAfterCycle ==
    [][(/\ loop_pc \in {"render", "draw"}
        /\ loop_pc' = "top"
        /\ latest_state' = None
        /\ ~stop_event')
          => ~update_event']_vars
====
